---- MODULE Spec2Model ----
(***************************************************************************)
(* Model of kiro.py: the privilege check, the menu loop, folder removal,   *)
(* registry cleanup and the machine-id reset of storage.json with its      *)
(* timestamped backup.                                                     *)
(*                                                                         *)
(* The host is modelled by what the script can observe of it: which of the *)
(* six Kiro folders exist, the content of storage.json, the backup files   *)
(* next to it (one per second-resolution timestamp), the two registry keys *)
(* and the wall clock.  Every OS call that can fail takes its outcome from *)
(* the environment.                                                        *)
(***************************************************************************)
EXTENDS Integers, Sequences, FiniteSets, TLC

\* Bounds of the model.
MaxKeys == 2       \* distinct keys in the initial storage.json object
MaxClock == 1      \* seconds the wall clock may advance during a run
MaxOps == 2        \* menu choices 1-4 served in one run
MaxFaults == 1     \* OS calls that fail during a run

----------------------------------------------------------------------------
\* JSON values.  A value is a tagged token: a literal found in the initial
\* file, or one of the three shapes generate_machine_ids() produces.

Lit(n) == [t |-> "lit", n |-> n]
Uuid(n) == [t |-> "uuid", n |-> n]            \* str(uuid.uuid4())
BracedUpper(v) == [t |-> "sqm", n |-> v.n]    \* "{" + upper-case + "}"
Sha256Hex(n) == [t |-> "sha", n |-> n]        \* sha256(uuid4().hex).hexdigest()
NoValue == [t |-> "none", n |-> 0]

\* generate_machine_ids(): four uuid4() draws, in the order of the code; rng
\* counts the draws made so far, so every draw is a fresh token.  The result
\* is the returned dict as its ordered list of (key, value) items, with the
\* draw count after the call.
generate_machine_ids(rng) ==
    LET dev_device_id == Uuid(rng + 1)
        machine_id == Uuid(rng + 2)
        sqm_id == BracedUpper(Uuid(rng + 3))
        mac_machine_id == Sha256Hex(rng + 4)
    IN  [ids |-> << <<"telemetry.devDeviceId", dev_device_id>>,
                    <<"telemetry.macMachineId", mac_machine_id>>,
                    <<"telemetry.machineId", machine_id>>,
                    <<"telemetry.sqmId", sqm_id>>,
                    <<"storage.serviceMachineId", dev_device_id>> >>,
         rng |-> rng + 4]

\* The five keys reset_machine_id() looks for: the keys of that dict.
TargetKeys ==
    LET ids == generate_machine_ids(0).ids IN {ids[i][1] : i \in DOMAIN ids}

----------------------------------------------------------------------------
\* File contents.  A file is [kind, body, fmt]:
\*   kind "object"    a JSON object; body is its members as written, in
\*                    order, duplicates included
\*   kind "array"     a JSON array of strings; body holds <<element, NoValue>>
\*   kind "string"    a JSON string; body holds <<s, NoValue>> for each
\*                    target key s occurring in it as a substring
\*   kind "scalar"    a JSON number, true, false or null
\*   kind "invalid"   not JSON, or not UTF-8
\*   kind "truncated" what an interrupted write leaves behind
\*   kind "absent"    no regular file at the path
\* fmt is the layout of the text: "indent4" is what json.dump(indent=4,
\* ensure_ascii=False) writes, "other" any other layout.

NoFile == [kind |-> "absent", body |-> <<>>, fmt |-> "none"]
Truncated == [kind |-> "truncated", body |-> <<>>, fmt |-> "none"]

\* Variant: the existence check is dropped.
isfile_unchecked(f) == TRUE

\* os.path.isfile
isfile(f) == f.kind # "absent"

KeysOf(body) == {body[i][1] : i \in DOMAIN body}

\* dict[k] = v on the ordered item list of a dict: an existing key keeps its
\* position, a new key goes last.
DictStore(body, k, v) ==
    IF k \in KeysOf(body)
    THEN [i \in DOMAIN body |-> IF body[i][1] = k THEN <<k, v>> ELSE body[i]]
    ELSE Append(body, <<k, v>>)

RECURSIVE DictFromPairs(_, _)
DictFromPairs(pairs, acc) ==
    IF pairs = <<>> THEN acc
    ELSE DictFromPairs(Tail(pairs), DictStore(acc, pairs[1][1], pairs[1][2]))

NoData == [kind |-> "none", body |-> <<>>]

\* Variant: text that does not parse is read as an empty object.
json_load_lenient(f) ==
    CASE f.kind = "object" -> [ok |-> TRUE, data |-> [kind |-> "dict", body |-> DictFromPairs(f.body, <<>>)]]
      [] f.kind = "array" -> [ok |-> TRUE, data |-> [kind |-> "list", body |-> f.body]]
      [] f.kind = "string" -> [ok |-> TRUE, data |-> [kind |-> "str", body |-> f.body]]
      [] f.kind = "scalar" -> [ok |-> TRUE, data |-> [kind |-> "scalar", body |-> <<>>]]
      [] OTHER -> [ok |-> TRUE, data |-> [kind |-> "dict", body |-> <<>>]]

\* json.load: raises on text that is not JSON; an object becomes a dict (the
\* last of duplicate members wins), any other top-level value its Python type.
json_load(f) ==
    CASE f.kind = "object" -> [ok |-> TRUE, data |-> [kind |-> "dict", body |-> DictFromPairs(f.body, <<>>)]]
      [] f.kind = "array" -> [ok |-> TRUE, data |-> [kind |-> "list", body |-> f.body]]
      [] f.kind = "string" -> [ok |-> TRUE, data |-> [kind |-> "str", body |-> f.body]]
      [] f.kind = "scalar" -> [ok |-> TRUE, data |-> [kind |-> "scalar", body |-> <<>>]]
      [] OTHER -> [ok |-> FALSE, data |-> NoData]

\* json.dump(data, f, indent=4, ensure_ascii=False): the text written.
json_dump(data) ==
    [kind |-> CASE data.kind = "dict" -> "object"
                [] data.kind = "list" -> "array"
                [] data.kind = "str" -> "string"
                [] OTHER -> "scalar",
     body |-> data.body,
     fmt |-> "indent4"]

\* Variant: the membership test is dropped, every key counts as present.
PyContains_always(data, key) ==
    [raised |-> data.kind = "scalar", val |-> TRUE]

\* `key in data`: membership for a dict or a list, substring test for a str,
\* TypeError for a number, a boolean or None.
PyContains(data, key) ==
    [raised |-> data.kind = "scalar", val |-> key \in KeysOf(data.body)]

\* Variant: the assignment rebuilds the dict from the updated key alone.
PySetItem_rebuild(data, key, val) ==
    IF data.kind = "dict"
    THEN [raised |-> FALSE, data |-> [data EXCEPT !.body = <<<<key, val>>>>]]
    ELSE [raised |-> TRUE, data |-> data]

\* `data[key] = val`: defined for a dict, TypeError for every other type.
PySetItem(data, key, val) ==
    IF data.kind = "dict"
    THEN [raised |-> FALSE, data |-> [data EXCEPT !.body = DictStore(data.body, key, val)]]
    ELSE [raised |-> TRUE, data |-> data]

----------------------------------------------------------------------------
\* backup_file(src_path): the backups are the files <src_path>.bak.<ts>,
\* kept as a function from the timestamp ts to the file's content.

NoBackups == [t \in {} |-> NoFile]

StoreBackup(backups, ts, f) ==
    [t \in (DOMAIN backups) \cup {ts} |-> IF t = ts THEN f ELSE backups[t]]

None == 0 - 1

\* shutil.copy2 of a file that is not there always raises.
CopyOutcome(src, copy) == IF src = NoFile THEN "error" ELSE copy

\* Variant: the path is returned whether or not the copy succeeded.
backup_file_path_always(src, backups, now, copy) ==
    IF ~isfile(src)
    THEN [ret |-> None, backups |-> backups, copied |-> FALSE]
    ELSE [ret |-> now,
          backups |-> CASE CopyOutcome(src, copy) = "ok" -> StoreBackup(backups, now, src)
                        [] CopyOutcome(src, copy) = "partial" -> StoreBackup(backups, now, Truncated)
                        [] OTHER -> backups,
          copied |-> TRUE]

\* backup_file(src_path) at clock reading `now`: "ok" copies the file, "error"
\* raises before the copy exists, "partial" raises after part of it was
\* written.  ret is the returned path (its timestamp), or None.
backup_file(src, backups, now, copy) ==
    IF ~isfile(src)
    THEN [ret |-> None, backups |-> backups, copied |-> FALSE]
    ELSE CASE CopyOutcome(src, copy) = "ok" ->
                [ret |-> now, backups |-> StoreBackup(backups, now, src), copied |-> TRUE]
           [] CopyOutcome(src, copy) = "partial" ->
                [ret |-> None, backups |-> StoreBackup(backups, now, Truncated), copied |-> TRUE]
           [] OTHER ->
                [ret |-> None, backups |-> backups, copied |-> TRUE]

----------------------------------------------------------------------------
\* reset_machine_id()

\* The loop of lines 123-126 over new_ids.items(), from item i on.  A
\* TypeError raised by `key in data` or by the assignment leaves the loop.
RECURSIVE UpdateLoop(_, _, _, _)
UpdateLoop(data, new_ids, i, updated_keys) ==
    IF i > Len(new_ids)
    THEN [raised |-> FALSE, data |-> data, updated_keys |-> updated_keys]
    ELSE LET key == new_ids[i][1]
             new_val == new_ids[i][2]
             found == PyContains(data, key)
             stored == PySetItem(data, key, new_val)
         IN  IF found.raised
             THEN [raised |-> TRUE, data |-> data, updated_keys |-> updated_keys]
             ELSE IF ~found.val
             THEN UpdateLoop(data, new_ids, i + 1, updated_keys)
             ELSE IF stored.raised
             THEN [raised |-> TRUE, data |-> data, updated_keys |-> updated_keys]
             ELSE UpdateLoop(stored.data, new_ids, i + 1, Append(updated_keys, key))

\* Variant: the file is written even when no key was updated.
should_write_always(updated_keys) == TRUE

\* `if not updated_keys: return` decides whether the file is written at all.
should_write(updated_keys) == updated_keys # <<>>

\* open(storage_path, "w") then json.dump: "open_error" fails before the file
\* is truncated, "io_error" after.
WriteFile(f, data, write) ==
    CASE write = "ok" -> json_dump(data)
      [] write = "io_error" -> Truncated
      [] OTHER -> f

Outcomes == {"FileNotFound", "ParseError", "NoTargetKeysFound", "Updated", "WriteError"}

ResetResult(storage, backups, rng, outcome, log, bak, data0, new_ids, upd) ==
    [storage |-> storage, backups |-> backups, rng |-> rng, outcome |-> outcome,
     log |-> log, ret |-> bak.ret, data0 |-> data0, new_ids |-> new_ids,
     data |-> upd.data, updated_keys |-> upd.updated_keys]

NoBackupCall == [ret |-> None, backups |-> NoBackups, copied |-> FALSE]
NoUpdate == [raised |-> FALSE, data |-> NoData, updated_keys |-> <<>>]

\* One call of reset_machine_id() on the file `storage`, at clock reading
\* `now`; env holds the outcome of each OS call it makes: env.copy for
\* shutil.copy2, env.read for opening the file for reading, env.write for
\* opening and writing it.  outcome is the message the call prints, or
\* "TypeError" when an exception leaves the function.  log lists the OS calls
\* made, in order; data0 is the parsed document, data the document after the
\* loop, ret what backup_file() returned.
reset_machine_id(storage, backups, now, rng, env) ==
    IF ~isfile(storage)
    THEN ResetResult(storage, backups, rng, "FileNotFound", <<>>, NoBackupCall, NoData, <<>>, NoUpdate)
    ELSE
    LET bak == backup_file(storage, backups, now, env.copy)
        log1 == IF bak.copied THEN <<"copy2">> ELSE <<>>
        loaded == IF env.read THEN json_load(storage) ELSE [ok |-> FALSE, data |-> NoData]
        log2 == Append(log1, "open_r")
        new_ids == generate_machine_ids(rng).ids
        rng2 == generate_machine_ids(rng).rng
        upd == UpdateLoop(loaded.data, new_ids, 1, <<>>)
    IN  IF ~loaded.ok
        THEN ResetResult(storage, bak.backups, rng, "ParseError", log2, bak, NoData, <<>>, NoUpdate)
        ELSE IF upd.raised
        THEN ResetResult(storage, bak.backups, rng2, "TypeError", log2, bak, loaded.data, new_ids, upd)
        ELSE IF ~should_write(upd.updated_keys)
        THEN ResetResult(storage, bak.backups, rng2, "NoTargetKeysFound", log2, bak, loaded.data, new_ids, upd)
        ELSE ResetResult(WriteFile(storage, upd.data, env.write), bak.backups, rng2,
                         IF env.write = "ok" THEN "Updated" ELSE "WriteError",
                         Append(log2, "open_w"), bak, loaded.data, new_ids, upd)

----------------------------------------------------------------------------
\* uninstall_kiro() and delete_folder()

\* The folders list of uninstall_kiro(), in its order.
Folders ==
    << "%APPDATA%\\Kiro", "%LOCALAPPDATA%\\Programs\\Kiro", "%LOCALAPPDATA%\\Kiro",
       "%PROGRAMDATA%\\Kiro", "~\\Documents\\Kiro", "~\\Downloads\\Kiro" >>

\* storage.json is %APPDATA%\Kiro\User\globalStorage\storage.json, and
\* backup_file() writes its copies next to it: both live under Folders[1].
StorageDir == Folders[1]

\* delete_folder(path) on the file system fs = [folders, storage, backups,
\* rmtree].  r is what shutil.rmtree does when the folder exists: r.res = "ok"
\* removes the tree; "error" raises part-way, after the files r.lostStorage
\* and r.lostBackups name were already removed.  fs.rmtree records that
\* rmtree was called.
delete_folder(fs, path, r) ==
    IF path \notin fs.folders THEN fs
    ELSE IF r.res = "ok"
    THEN [folders |-> fs.folders \ {path},
          storage |-> IF path = StorageDir THEN NoFile ELSE fs.storage,
          backups |-> IF path = StorageDir THEN NoBackups ELSE fs.backups,
          rmtree |-> TRUE]
    ELSE [folders |-> fs.folders,
          storage |-> IF path = StorageDir /\ r.lostStorage THEN NoFile ELSE fs.storage,
          backups |-> IF path = StorageDir
                      THEN [t \in (DOMAIN fs.backups) \ r.lostBackups |-> fs.backups[t]]
                      ELSE fs.backups,
          rmtree |-> TRUE]

\* uninstall_kiro(): delete_folder on each folder from index i on; rs[i] is
\* the outcome of rmtree on Folders[i].
RECURSIVE uninstall_kiro(_, _, _)
uninstall_kiro(fs, rs, i) ==
    IF i > Len(Folders) THEN fs
    ELSE uninstall_kiro(delete_folder(fs, Folders[i], rs[i]), rs, i + 1)

----------------------------------------------------------------------------
\* clean_registry() and delete_registry_key()

\* The two keys clean_registry() deletes, in its order.
RegistryKeys ==
    << "HKLM\\SOFTWARE\\Microsoft\\RADAR\\HeapLeakDetection\\DiagnosedApplications\\Kiro.exe",
       "HKLM\\BCD00000000" >>

\* delete_registry_key on reg = [keys, deleted]: a key that is not there
\* raises FileNotFoundError; winreg.DeleteKey on a key that is there succeeds
\* (r = "ok") or raises PermissionError or another OSError.  Every exception
\* is caught and printed.
delete_registry_key(reg, key, r) ==
    IF key \notin reg.keys THEN reg
    ELSE IF r = "ok" THEN [keys |-> reg.keys \ {key}, deleted |-> TRUE]
    ELSE reg

clean_registry(reg, rs) ==
    delete_registry_key(delete_registry_key(reg, RegistryKeys[1], rs[1]), RegistryKeys[2], rs[2])

----------------------------------------------------------------------------
\* is_admin(): IsUserAnAdmin() returns an int, or the call raises and the
\* bare except returns False.

\* Variant: the bare except returns True.
is_admin_default_true(check) == check # "zero"

is_admin(check) == check = "nonzero"

----------------------------------------------------------------------------
\* The program and its host.

VARIABLES
    pc,          \* "start" before the privilege check, "menu" in main_menu's
                 \* loop, "exit" after the program ended, "crashed" after an
                 \* exception left main_menu
    adminCheck,  \* what IsUserAnAdmin() does on this host
    ops,         \* menu choices 1-4 served so far
    clock,       \* wall clock, in seconds
    rng,         \* uuid4() draws made so far
    folders,     \* the Kiro folders that exist
    storage,     \* content of storage.json
    backups,     \* content of storage.json.bak.<ts>, by ts
    registry,    \* the registry keys that exist
    faults,      \* OS calls that failed so far
    effects,     \* history: the destructive OS calls made so far (rmtree,
                 \* copy2, open for writing) and registry keys deleted
    boot,        \* history: the host's folders, files and keys at startup
    call         \* history: the reset_machine_id() call of the latest menu
                 \* choice, if it made one

vars == <<pc, adminCheck, ops, clock, rng, folders, storage, backups, registry,
          faults, effects, boot, call>>

\* The keys an initial storage.json may hold, in the order its members are
\* written: the five target keys and one key the tool does not know.
InitKeys ==
    LET ids == generate_machine_ids(0).ids
    IN  [i \in 1..(Len(ids) + 1) |-> IF i <= Len(ids) THEN ids[i][1] ELSE "unrelated"]

InitValue(k) == IF k \in TargetKeys THEN Lit(0) ELSE Lit(1)

\* The members of InitKeys whose index is in I, as object members in order.
RECURSIVE Members(_, _)
Members(I, i) ==
    IF i > Len(InitKeys) THEN <<>>
    ELSE (IF i \in I THEN << <<InitKeys[i], InitValue(InitKeys[i])>> >> ELSE <<>>)
         \o Members(I, i + 1)

Object(body) == [kind |-> "object", body |-> body, fmt |-> "other"]

\* Initial contents of storage.json: an object with up to MaxKeys distinct
\* keys; objects that write a key twice; a top-level array or string, with and
\* without a target key in it; a scalar; text that is not JSON; no file.
InitFiles ==
    {Object(Members(I, 1)) : I \in {J \in SUBSET (DOMAIN InitKeys) : Cardinality(J) <= MaxKeys}}
    \cup {Object(<< <<"unrelated", Lit(1)>>, <<"telemetry.machineId", Lit(0)>>,
                    <<"unrelated", Lit(2)>> >>)}
    \cup {[kind |-> k, body |-> b, fmt |-> "other"] :
            k \in {"array", "string"}, b \in {<<>>, <<<<"telemetry.machineId", NoValue>>>>}}
    \cup {[kind |-> "scalar", body |-> <<>>, fmt |-> "other"],
          [kind |-> "invalid", body |-> <<>>, fmt |-> "other"],
          NoFile}

\* Kiro is either not installed, or its per-user data folder and its program
\* folder exist.
InitFolderSets == {{}, {Folders[1], Folders[2]}}

NoCall ==
    [choice |-> "", seqPre |-> NoFile, pre |-> NoFile, preBackups |-> NoBackups, now |-> 0,
     rng0 |-> 0,
     res |-> ResetResult(NoFile, NoBackups, 0, "none", <<>>, NoBackupCall, NoData, <<>>, NoUpdate)]

Init ==
    /\ pc = "start"
    /\ adminCheck \in {"nonzero", "zero", "raises"}
    /\ ops = 0
    /\ clock = 0
    /\ rng = 0
    /\ storage \in InitFiles
    /\ folders \in {F \in InitFolderSets : isfile(storage) => StorageDir \in F}
    /\ backups = NoBackups
    /\ registry = {RegistryKeys[i] : i \in DOMAIN RegistryKeys}
    /\ faults = 0
    /\ effects = {}
    /\ boot = [folders |-> folders, storage |-> storage, backups |-> backups,
               registry |-> registry]
    /\ call = NoCall

\* The __main__ block: main_menu() runs only if is_admin() is truthy.
Startup ==
    /\ pc = "start"
    /\ pc' = IF is_admin(adminCheck) THEN "menu" ELSE "exit"
    /\ UNCHANGED <<adminCheck, ops, clock, rng, folders, storage, backups,
                   registry, faults, effects, boot, call>>

Count(b) == IF b THEN 1 ELSE 0
Logged(res, e) == \E i \in DOMAIN res.log : res.log[i] = e

\* What shutil.rmtree may do on file system fs with at most k failures: it
\* fails on any of the folders that exist, and a failure on the folder of
\* storage.json may come after some of the files in it were removed.
RmtreeEnv(fs, k) ==
    {[i \in DOMAIN Folders |->
        [res |-> IF Folders[i] \in failing THEN "error" ELSE "ok",
         lostStorage |-> lostStorage, lostBackups |-> lostBackups]] :
     failing \in {F \in SUBSET fs.folders : Cardinality(F) <= k},
     lostStorage \in {FALSE, isfile(fs.storage)},
     lostBackups \in SUBSET (DOMAIN fs.backups)}

\* What winreg.DeleteKey may do to each key that exists: succeed, or raise
\* PermissionError or another OSError.
RegistryEnv(reg, k) ==
    {rs \in [DOMAIN RegistryKeys -> {"ok", "PermissionError", "OSError"}] :
        /\ \A i \in DOMAIN RegistryKeys : RegistryKeys[i] \notin reg.keys => rs[i] = "ok"
        /\ Cardinality({i \in DOMAIN RegistryKeys : rs[i] # "ok"}) <= k}

\* What the OS calls of reset_machine_id() may do.
ResetEnv(k) ==
    {env \in [copy : {"ok", "error", "partial"}, read : BOOLEAN,
              write : {"ok", "open_error", "io_error"}] :
        Count(env.copy # "ok") + Count(~env.read) + Count(env.write # "ok") <= k}

FsNow == [folders |-> folders, storage |-> storage, backups |-> backups, rmtree |-> FALSE]
RegNow == [keys |-> registry, deleted |-> FALSE]

\* Every result a call can have with at most k of its OS calls failing, each
\* with the number of OS calls that did fail in it.
UninstallResults(fs, k) ==
    {[fs |-> uninstall_kiro(fs, rs, 1),
      failed |-> Cardinality({i \in DOMAIN Folders : rs[i].res # "ok"})] :
     rs \in RmtreeEnv(fs, k)}

CleanResults(reg, k) ==
    {[reg |-> clean_registry(reg, rs),
      failed |-> Cardinality({i \in DOMAIN RegistryKeys : rs[i] # "ok"})] :
     rs \in RegistryEnv(reg, k)}

ResetFailed(res, env) ==
    Count(Logged(res, "copy2") /\ env.copy # "ok")
    + Count(Logged(res, "open_r") /\ ~env.read)
    + Count(Logged(res, "open_w") /\ env.write # "ok")

ResetResults(fs, k) ==
    {LET res == reset_machine_id(fs.storage, fs.backups, clock, rng, env)
     IN  [res |-> res, failed |-> ResetFailed(res, env)] : env \in ResetEnv(k)}

ResetEffects(res) == {e \in {"copy2", "open_w"} : Logged(res, e)}

\* The state after reset_machine_id() ran on file system fs as part of menu
\* choice c; seqPre is storage.json as it was when the choice was made.
AfterReset(c, fs, res, seqPre) ==
    /\ storage' = res.storage
    /\ backups' = res.backups
    /\ rng' = res.rng
    /\ call' = [choice |-> c, seqPre |-> seqPre, pre |-> fs.storage,
                preBackups |-> fs.backups, now |-> clock, rng0 |-> rng, res |-> res]
    /\ pc' = IF res.outcome \in Outcomes THEN "menu" ELSE "crashed"

\* OS calls that may still fail in this run.
Budget == MaxFaults - faults

\* One of the choices 1-4 is served, with n OS calls failing in it.
Serve(n) ==
    /\ pc = "menu"
    /\ ops < MaxOps
    /\ ops' = ops + 1
    /\ faults' = faults + n
    /\ UNCHANGED <<adminCheck, clock, boot>>

\* choice == "1": uninstall_kiro(); pause()
Choice1 ==
    /\ pc = "menu" /\ ops < MaxOps
    /\ \E u \in UninstallResults(FsNow, Budget) :
         /\ Serve(u.failed)
         /\ folders' = u.fs.folders
         /\ storage' = u.fs.storage
         /\ backups' = u.fs.backups
         /\ effects' = effects \cup (IF u.fs.rmtree THEN {"rmtree"} ELSE {})
    /\ call' = NoCall
    /\ UNCHANGED <<pc, rng, registry>>

\* choice == "2": clean_registry(); pause()
Choice2 ==
    /\ pc = "menu" /\ ops < MaxOps
    /\ \E c \in CleanResults(RegNow, Budget) :
         /\ Serve(c.failed)
         /\ registry' = c.reg.keys
         /\ effects' = effects \cup (IF c.reg.deleted THEN {"DeleteKey"} ELSE {})
    /\ call' = NoCall
    /\ UNCHANGED <<pc, rng, folders, storage, backups>>

\* choice == "3": reset_machine_id(); pause()
Choice3 ==
    /\ pc = "menu" /\ ops < MaxOps
    /\ \E r \in ResetResults(FsNow, Budget) :
         /\ Serve(r.failed)
         /\ AfterReset("3", FsNow, r.res, storage)
         /\ effects' = effects \cup ResetEffects(r.res)
    /\ UNCHANGED <<folders, registry>>

\* choice == "4": uninstall_kiro(); clean_registry(); reset_machine_id(); pause()
Choice4 ==
    /\ pc = "menu" /\ ops < MaxOps
    /\ \E u \in UninstallResults(FsNow, Budget) :
         \E c \in CleanResults(RegNow, Budget - u.failed) :
         \E r \in ResetResults(u.fs, Budget - u.failed - c.failed) :
             /\ Serve(u.failed + c.failed + r.failed)
             /\ folders' = u.fs.folders
             /\ registry' = c.reg.keys
             /\ AfterReset("4", u.fs, r.res, storage)
             /\ effects' = effects \cup (IF u.fs.rmtree THEN {"rmtree"} ELSE {})
                                   \cup (IF c.reg.deleted THEN {"DeleteKey"} ELSE {})
                                   \cup ResetEffects(r.res)

\* choice == "0": leave the loop; the program ends and only the host's
\* state remains.
Choice0 ==
    /\ pc = "menu"
    /\ pc' = "exit"
    /\ ops' = 0
    /\ rng' = 0
    /\ faults' = 0
    /\ call' = NoCall
    /\ UNCHANGED <<adminCheck, clock, folders, storage, backups, registry, effects, boot>>

\* Any other input: "Choix invalide", and the loop goes on.
ChoiceInvalid ==
    /\ pc = "menu"
    /\ UNCHANGED vars

main_menu == Choice1 \/ Choice2 \/ Choice3 \/ Choice4 \/ Choice0 \/ ChoiceInvalid

\* The wall clock advances while the program waits for input.
Tick ==
    /\ pc = "menu"
    /\ clock < MaxClock
    /\ clock' = clock + 1
    /\ UNCHANGED <<pc, adminCheck, ops, rng, folders, storage, backups, registry,
                   faults, effects, boot, call>>

Next == Startup \/ main_menu \/ Tick

Spec == Init /\ [][Next]_vars

----------------------------------------------------------------------------
\* Properties of reset_machine_id(), stated on the call of the latest menu
\* choice: the file it found (call.pre), what it returned (call.res) and the
\* host state it left.

WasReset == call.choice # ""
Result == call.res
Range(seq) == {seq[i] : i \in DOMAIN seq}
ParsedBefore == json_load(call.pre).data
ParsedAfter == json_load(storage).data

\* C1: after a reset of a key-value document that ends with the file written,
\* the persisted document has exactly the keys the document had before, and
\* every key that is not a target key has the value it had before.
C1_FramePreserved ==
    (WasReset /\ call.pre.kind = "object" /\ Result.outcome = "Updated") =>
        /\ KeysOf(ParsedAfter.body) = KeysOf(ParsedBefore.body)
        /\ \A i \in DOMAIN ParsedBefore.body :
              ParsedBefore.body[i][1] \notin TargetKeys =>
                  ParsedBefore.body[i] \in Range(ParsedAfter.body)

C1_Witness ==
    /\ WasReset /\ call.pre.kind = "object" /\ Result.outcome = "Updated"
    /\ Len(call.pre.body) > Len(ParsedBefore.body)
    /\ "unrelated" \in KeysOf(ParsedAfter.body)
    /\ "telemetry.machineId" \in KeysOf(ParsedAfter.body)

\* C2: in a reset of a key-value document, a target key is given its newly
\* generated value and is listed in updated_keys if and only if the parsed
\* document held it; a target key the document did not hold stays absent; and
\* updated_keys lists exactly the target keys the document held, once each.
C2_UpdatedIffPresent ==
    (WasReset /\ Result.data0.kind = "dict" /\ Result.outcome # "TypeError") =>
        /\ \A i \in DOMAIN Result.new_ids :
              LET k == Result.new_ids[i][1]
                  held == k \in KeysOf(Result.data0.body)
              IN  /\ held <=> k \in Range(Result.updated_keys)
                  /\ held <=> <<k, Result.new_ids[i][2]>> \in Range(Result.data.body)
                  /\ ~held => k \notin KeysOf(Result.data.body)
                  /\ (held /\ Result.outcome = "Updated") =>
                        <<k, Result.new_ids[i][2]>> \in Range(ParsedAfter.body)
        /\ Range(Result.updated_keys) = TargetKeys \cap KeysOf(ParsedBefore.body)
        /\ Len(Result.updated_keys) = Cardinality(Range(Result.updated_keys))
        /\ Result.data0 = ParsedBefore

C2_Witness ==
    /\ WasReset /\ Result.outcome = "Updated"
    /\ KeysOf(ParsedBefore.body) = {"telemetry.machineId", "telemetry.sqmId"}
    /\ Result.updated_keys = <<"telemetry.machineId", "telemetry.sqmId">>
    /\ KeysOf(ParsedAfter.body) = {"telemetry.machineId", "telemetry.sqmId"}

C4_FileNotFoundTouchesNothing ==
    (WasReset /\ call.pre = NoFile) =>
        /\ Result.outcome = "FileNotFound"
        /\ Result.log = <<>>
        /\ Result.ret = None
        /\ backups = call.preBackups
        /\ storage = NoFile
        /\ Result.new_ids = <<>> /\ rng = call.rng0

C4_Witness ==
    /\ WasReset /\ call.pre = NoFile /\ Result.outcome = "FileNotFound"
    /\ call.choice = "3" /\ backups = NoBackups

\* C5: when the content of storage.json is not parsable, the reset reports
\* ParseError and leaves the file as it was, never opening it for writing;
\* the backup copy was attempted first, and if backup_file() returned a path
\* the file at that path holds the unparsable content.
C5_ParseErrorAfterBackup ==
    (WasReset /\ call.pre.kind \in {"invalid", "truncated"}) =>
        /\ Result.outcome = "ParseError"
        /\ storage = call.pre
        /\ Result.log = <<"copy2", "open_r">>
        /\ Result.ret # None =>
              Result.ret \in DOMAIN backups /\ backups[Result.ret] = call.pre

C5_Witness ==
    /\ WasReset /\ call.pre.kind = "invalid" /\ Result.outcome = "ParseError"
    /\ Result.ret \in DOMAIN backups /\ backups[Result.ret] = call.pre
    /\ call.preBackups = NoBackups

\* C6, as claimed: whenever the reset opens storage.json for writing, a backup
\* file holding the file's pre-mutation content was created earlier in the
\* same call.
C6_BackupBeforeEveryWrite ==
    (WasReset /\ Logged(Result, "open_w")) =>
        /\ Result.ret \in DOMAIN backups
        /\ backups[Result.ret] = call.pre

\* C6, amended: whenever the reset opens storage.json for writing, the backup
\* copy was attempted earlier in the same call, before the file was read,
\* and if backup_file() returned a path the file at that path holds the
\* pre-mutation content.
C6_BackupAttemptedBeforeWrite ==
    (WasReset /\ Logged(Result, "open_w")) =>
        /\ Result.log = <<"copy2", "open_r", "open_w">>
        /\ Result.ret # None =>
              Result.ret \in DOMAIN backups /\ backups[Result.ret] = call.pre

C6_Witness ==
    /\ WasReset /\ Result.outcome = "Updated"
    /\ Result.ret \in DOMAIN backups /\ backups[Result.ret] = call.pre
    /\ storage # call.pre

\* C7: a backup file, once created, is there after every later step, with
\* the content it had.
C7_BackupsImmutable ==
    [][\A t \in DOMAIN backups : t \in DOMAIN backups' /\ backups'[t] = backups[t]]_vars

\* C8: every call of reset_machine_id() ends in one of its reported outcomes;
\* no exception leaves it.
C8_NoUncaughtException ==
    WasReset => Result.outcome \in Outcomes

\* C9: in the do-everything sequence the outcome of reset_machine_id() (what
\* it reports, the keys it updates, the OS calls it makes) is an outcome the
\* call can have on storage.json as it was when the sequence began.
C9_ResetIndependentOfEarlierSteps ==
    (WasReset /\ call.choice = "4") =>
        \E env \in ResetEnv(MaxFaults) :
            LET alone == reset_machine_id(call.seqPre, call.preBackups, call.now, call.rng0, env)
            IN  /\ alone.outcome = Result.outcome
                /\ alone.updated_keys = Result.updated_keys
                /\ alone.log = Result.log

\* C10: a destructive OS call is made only after is_admin() returned a truthy
\* value; when IsUserAnAdmin() returns zero or raises, the menu is never
\* entered and the folders, files and registry keys stay as they were.
C10_AdminGate ==
    /\ effects # {} => (adminCheck = "nonzero" /\ pc # "start")
    /\ adminCheck # "nonzero" =>
          /\ pc \in {"start", "exit"}
          /\ ops = 0 /\ call = NoCall /\ effects = {}
          /\ [folders |-> folders, storage |-> storage, backups |-> backups,
              registry |-> registry] = boot

C10_Witness ==
    /\ adminCheck = "raises" /\ pc = "exit"
    /\ isfile(storage) /\ StorageDir \in folders

====
